---- MODULE Spec2Model ----
(***************************************************************************)
(* Model of the crawl scheduler of multithreaded-web-crawler:              *)
(*   src/src/crawler.rs  Crawler::{add_url, run, worker, check_robots_txt, *)
(*                       crawl_page}                                       *)
(*   src/main.rs         Crawler::normalize_url, RobotsTxt::{fetch,        *)
(*                       is_allowed}, MemoryStore                          *)
(* The workers are tokio tasks spawned on the multi-threaded runtime       *)
(* (#[tokio::main]), so every access to a shared structure (DashSet,       *)
(* DashMap, a tokio Mutex) is one atomic step and steps of different       *)
(* workers interleave freely.                                              *)
(***************************************************************************)
EXTENDS Integers, Sequences, FiniteSets, TLC

(***************************************************************************)
(* Bounds of the model.                                                    *)
(***************************************************************************)
MaxWorkers == 2        \* concurrent_requests is 1 or MaxWorkers
MaxPagesBound == 3     \* max_pages is 1 or MaxPagesBound
MaxDepthBound == 1     \* max_depth is 0 or MaxDepthBound

Workers == 1..MaxWorkers

(***************************************************************************)
(* Strings that matter character by character (robots.txt lines, URL       *)
(* paths) are sequences of one-character strings.                          *)
(***************************************************************************)
IsSpace(c) == c \in {" ", "\t", "\r"}

RECURSIVE TrimStart(_)
TrimStart(s) ==
    IF s # <<>> /\ IsSpace(Head(s)) THEN TrimStart(Tail(s)) ELSE s

RECURSIVE TrimEnd(_)
TrimEnd(s) ==
    IF s # <<>> /\ IsSpace(s[Len(s)]) THEN TrimEnd(SubSeq(s, 1, Len(s) - 1)) ELSE s

\* str::trim
Trim(s) == TrimEnd(TrimStart(s))

\* str::starts_with
StartsWith(s, p) == Len(p) <= Len(s) /\ SubSeq(s, 1, Len(p)) = p

\* str::get(n..): the slice from byte offset n (0-based) to the end
GetFrom(s, n) == SubSeq(s, n + 1, Len(s))

AllowPrefix == <<"A", "l", "l", "o", "w", ":", " ">>
DisallowPrefix == <<"D", "i", "s", "a", "l", "l", "o", "w", ":", " ">>

(***************************************************************************)
(* RobotsTxt (src/main.rs:183-237).                                        *)
(***************************************************************************)
\* the directive loop of RobotsTxt::fetch over content.lines()
RECURSIVE ParseLines(_, _, _)
ParseLines(lines, allowed, disallowed) ==
    IF lines = <<>>
    THEN [allowed_paths |-> allowed, disallowed_paths |-> disallowed]
    ELSE LET line == Trim(Head(lines)) IN
         IF StartsWith(line, AllowPrefix)
         THEN ParseLines(Tail(lines), Append(allowed, Trim(GetFrom(line, 6))), disallowed)
         ELSE IF StartsWith(line, DisallowPrefix)
         THEN ParseLines(Tail(lines), allowed, Append(disallowed, Trim(GetFrom(line, 9))))
         ELSE ParseLines(Tail(lines), allowed, disallowed)

ParseRobots(lines) == ParseLines(lines, <<>>, <<>>)

is_allowed_allow_last(robots, path) ==
    IF \E i \in 1..Len(robots.disallowed_paths) : StartsWith(path, robots.disallowed_paths[i])
    THEN FALSE
    ELSE TRUE

\* RobotsTxt::is_allowed: the Allow prefixes are tried first, then the
\* Disallow prefixes, and a path no prefix matches is allowed
is_allowed(robots, path) ==
    IF \E i \in 1..Len(robots.allowed_paths) : StartsWith(path, robots.allowed_paths[i])
    THEN TRUE
    ELSE IF \E i \in 1..Len(robots.disallowed_paths) : StartsWith(path, robots.disallowed_paths[i])
    THEN FALSE
    ELSE TRUE

(***************************************************************************)
(* URL strings.  A URL string is modelled by its syntax: whether           *)
(* Url::parse accepts it, and its scheme, host, path and fragment.         *)
(***************************************************************************)
NoFrag == "-"
NoHost == "-"

MkUrl(scheme, host, path, frag) ==
    [ok |-> TRUE, scheme |-> scheme, host |-> host, path |-> path, frag |-> frag]

PublicPagePath == <<"/", "p", "u", "b", "l", "i", "c", "/", "p", "a", "g", "e">>
PrivatePath == <<"/", "p", "r", "i", "v", "a", "t", "e">>
OtherPath == <<"/", "o", "t", "h", "e", "r">>

UrlPublic == MkUrl("https", "x.test", PublicPagePath, NoFrag)
UrlPrivate == MkUrl("https", "x.test", PrivatePath, NoFrag)
UrlOther == MkUrl("https", "x.test", OtherPath, NoFrag)
UrlOtherFrag == MkUrl("https", "x.test", OtherPath, "frag")
UrlMailto == MkUrl("mailto", NoHost, <<"a">>, NoFrag)
\* a string Url::parse rejects
UrlBad == [ok |-> FALSE, scheme |-> "", host |-> NoHost, path |-> <<>>, frag |-> NoFrag]

NoUrl == [ok |-> FALSE, scheme |-> "none", host |-> NoHost, path |-> <<>>, frag |-> NoFrag]

normalize_url_keep_fragment(url) == url

\* Crawler::normalize_url (src/main.rs:62-70): None when Url::parse fails,
\* else the URL printed without its fragment.  NoUrl stands for None.
normalize_url(url) ==
    IF url.ok THEN [url EXCEPT !.frag = NoFrag] ELSE NoUrl

IsHttp(url) == url.scheme \in {"http", "https"}

(***************************************************************************)
(* The web the crawler runs against: the hrefs of each page, already       *)
(* joined to the page's URL, and the robots.txt bodies a host may serve.   *)
(***************************************************************************)
Hrefs(url) ==
    IF url = UrlPublic THEN <<UrlPrivate, UrlOtherFrag>>
    ELSE IF url = UrlPrivate THEN <<UrlMailto, UrlOther>>
    ELSE <<>>

\* the links of the Page crawl_page builds (src/src/crawler.rs:167-182):
\* only http and https hrefs are kept
PageLinks(url) == SelectSeq(Hrefs(url), IsHttp)

L_AllowPublic == <<"A", "l", "l", "o", "w", ":", " ", "/", "p", "u", "b", "l", "i", "c">>
L_DisallowRoot == <<"D", "i", "s", "a", "l", "l", "o", "w", ":", " ", "/">>
L_DisallowPrivate ==
    <<" ", "D", "i", "s", "a", "l", "l", "o", "w", ":", " ", " ", "/", "p", "r", "i", "v", "a", "t", "e", " ">>
L_UserAgent == <<"U", "s", "e", "r", "-", "a", "g", "e", "n", "t", ":", " ", "*">>
L_AllowNoSpace == <<"A", "l", "l", "o", "w", ":", "/", "o", "t", "h", "e", "r">>

RobotsP6 == <<L_AllowPublic, L_DisallowRoot>>
RobotsPrivate == <<L_UserAgent, L_AllowNoSpace, L_DisallowPrivate>>
RobotsBodies == {RobotsP6, RobotsPrivate}

SeedLists == { <<UrlPublic>>, <<UrlPublic, UrlPrivate>>, <<UrlOther>>, <<UrlBad, UrlMailto>> }

\* stands for "no RobotsTxt": an empty cache slot, the None of RobotsTxt::fetch
NoRobots == [allowed_paths |-> << <<"-">> >>, disallowed_paths |-> << <<"-">> >>]
Hosts == {"x.test"}

NoEntry == [url |-> NoUrl, depth |-> 0, id |-> 0]

(***************************************************************************)
(* State.                                                                  *)
(***************************************************************************)
VARIABLES
    config,         \* CrawlerConfig: max_depth, max_pages, concurrent_requests, respect_robots_txt
    visited,        \* Crawler.visited: DashSet<String>
    queue,          \* Crawler.queue: Mutex<VecDeque<(String, usize)>>
    pages_crawled,  \* Crawler.pages_crawled: Mutex<usize>
    store,          \* Crawler.store: the urls of the pages the sink holds
    robots_cache,   \* Crawler.robots_cache: DashMap<String, RobotsTxt>
    seeds,          \* run: the seed urls not yet added
    coord,          \* run: "seeding", "running" (workers spawned, joining), "done"
    result,         \* run: the CrawlResult it returns
    pc,             \* worker: position of each worker task in its loop
    cur,            \* worker: next_item, the (url, depth) the worker is processing
    links,          \* worker: the links of the fetched page not yet passed to add_url
    can_crawl,      \* worker: the answer of check_robots_txt
    robots_used,    \* history: the rules the last check_robots_txt of the worker evaluated
    pushed,         \* history: every (url, depth) ever appended to the queue, in order
    handed,         \* history: handed[i] is the number of times pop_front returned entry i
    fetch_failures, \* history: the number of crawl_page calls that returned Err
    locks,          \* the holder of each tokio Mutex (queue, pages_crawled, store), or Free
    fetched,        \* history: the urls for which crawl_page returned Ok
    failed,         \* history: the urls for which crawl_page returned Err
    undelayed       \* history: the worker has called crawl_page and not yet slept delay_ms

vars == <<config, visited, queue, pages_crawled, store, robots_cache, seeds, coord,
          result, pc, cur, links, can_crawl, robots_used, pushed, handed, fetch_failures,
          locks, fetched, failed, undelayed>>

shared == <<visited, queue, pages_crawled, store, robots_cache>>
history == <<pushed, handed, fetch_failures>>
coordinator == <<config, seeds, coord, result>>
observed == <<fetched, failed, undelayed>>

(***************************************************************************)
(* The three tokio Mutexes.  lock().await is taken by a step only when the *)
(* Mutex is free; the MutexGuard is a temporary (or a local of an inner    *)
(* block) and is dropped when its statement (block) ends, which is inside  *)
(* the same step.                                                          *)
(***************************************************************************)
Free == 0
LockNames == {"queue", "pages_crawled", "store"}

\* lock().await returns
Acquire(l) == locks[l] = Free

GuardDropped_kept(l, w) == IF l = "queue" THEN w ELSE Free

\* the holder of Mutex l after the statement of task w that locked it:
\* lines 50, 67, 81-87, 88-91, 103, 108-111, 119
GuardDropped(l, w) == Free

\* a step of task w that locks Mutex l and runs to the end of the statement
WithLock(l, w) ==
    /\ Acquire(l)
    /\ locks' = [locks EXCEPT ![l] = GuardDropped(l, w)]

\* the coordinator task (run); the workers are 1..concurrent_requests
Coordinator == -1

NoResult == [pages_processed |-> -1, unique_urls |-> -1, errors |-> -1]

Spawned(w) == w <= config.concurrent_requests

\* Crawler::new, and the arguments of run
Init ==
    /\ config \in [max_depth : {0, MaxDepthBound},
                   max_pages : {1, MaxPagesBound},
                   concurrent_requests : {1, MaxWorkers},
                   respect_robots_txt : BOOLEAN]
    /\ visited = {}
    /\ queue = <<>>
    /\ pages_crawled = 0
    /\ store = <<>>
    /\ robots_cache = [h \in Hosts |-> NoRobots]
    /\ seeds \in SeedLists
    /\ coord = "seeding"
    /\ result = NoResult
    /\ pc = [w \in Workers |-> "idle"]
    /\ cur = [w \in Workers |-> NoEntry]
    /\ links = [w \in Workers |-> <<>>]
    /\ can_crawl = [w \in Workers |-> TRUE]
    /\ robots_used = [w \in Workers |-> NoRobots]
    /\ pushed = <<>>
    /\ handed = <<>>
    /\ fetch_failures = 0
    /\ locks = [l \in LockNames |-> Free]
    /\ fetched = {}
    /\ failed = {}
    /\ undelayed = [w \in Workers |-> FALSE]

(***************************************************************************)
(* add_url (src/src/crawler.rs:46-53): normalize, visited.contains,        *)
(* visited.insert, queue.lock().await.push_back.                           *)
(***************************************************************************)
\* the condition of line 48
NotVisited(n) == n \notin visited

PushBack_front(n, depth) ==
    /\ queue' = <<[url |-> n, depth |-> depth, id |-> Len(pushed) + 1]>> \o queue
    /\ pushed' = Append(pushed, [url |-> n, depth |-> depth])
    /\ handed' = Append(handed, 0)

\* line 50: push_back under the queue lock
PushBack(n, depth) ==
    /\ queue' = Append(queue, [url |-> n, depth |-> depth, id |-> Len(pushed) + 1])
    /\ pushed' = Append(pushed, [url |-> n, depth |-> depth])
    /\ handed' = Append(handed, 0)

\* run, line 57: the coordinator adds one seed at depth 0; no worker exists
\* yet, so the three steps of add_url run without interleaving
Seed ==
    /\ coord = "seeding"
    /\ seeds # <<>>
    /\ seeds' = Tail(seeds)
    /\ LET n == normalize_url(Head(seeds)) IN
       IF n # NoUrl /\ NotVisited(n)
       THEN /\ visited' = visited \cup {n}
            /\ PushBack(n, 0)
       ELSE UNCHANGED <<visited, queue, pushed, handed>>
    /\ UNCHANGED <<config, pages_crawled, store, robots_cache, coord, result, pc, cur,
                   links, can_crawl, robots_used, fetch_failures>>
    /\ WithLock("queue", Coordinator)
    /\ UNCHANGED observed

\* run, lines 58-65: spawn concurrent_requests worker tasks
Spawn ==
    /\ coord = "seeding"
    /\ seeds = <<>>
    /\ coord' = "running"
    /\ pc' = [w \in Workers |-> IF Spawned(w) THEN "check" ELSE "idle"]
    /\ UNCHANGED <<config, seeds, result, shared, cur, links, can_crawl, robots_used, history>>
    /\ UNCHANGED <<locks, observed>>

AllStopped == \A w \in Workers : Spawned(w) => pc[w] = "stopped"

\* the errors field of the CrawlResult, line 74
ReportedErrors == 0

\* run, lines 66-76: join every handle, then build the CrawlResult
Join ==
    /\ coord = "running"
    /\ AllStopped
    /\ coord' = "done"
    /\ result' = [pages_processed |-> pages_crawled,
                  unique_urls |-> Cardinality(visited),
                  errors |-> ReportedErrors]
    /\ UNCHANGED <<config, seeds, shared, pc, cur, links, can_crawl, robots_used, history>>
    /\ WithLock("pages_crawled", Coordinator)
    /\ UNCHANGED observed

(***************************************************************************)
(* worker (src/src/crawler.rs:78-125).                                     *)
(***************************************************************************)
MaxPagesReached_early == pages_crawled + 1 >= config.max_pages
MaxPagesReached_never == FALSE

\* lines 81-87: read the counter under its lock; stop when max_pages is reached
MaxPagesReached == pages_crawled >= config.max_pages

CheckMax(w) ==
    /\ pc[w] = "check"
    /\ pc' = [pc EXCEPT ![w] = IF MaxPagesReached THEN "stopped" ELSE "pop"]
    /\ UNCHANGED <<coordinator, shared, cur, links, can_crawl, robots_used, history>>
    /\ WithLock("pages_crawled", w)
    /\ UNCHANGED observed

DepthOk_always(depth) == TRUE
DepthOk_strict(depth) == depth < config.max_depth

\* line 93
DepthOk(depth) == depth <= config.max_depth

PopFront_keep == queue

\* line 90: pop_front under the queue lock
PopFront == Tail(queue)

\* lines 88-94 and 117: pop_front; an entry within max_depth goes on to the
\* robots check or the fetch, a deeper one is dropped, and an empty queue
\* sends the worker to the 100 ms sleep
Pop(w) ==
    /\ pc[w] = "pop"
    /\ IF queue # <<>>
       THEN LET e == Head(queue) IN
            /\ queue' = PopFront
            /\ handed' = [handed EXCEPT ![e.id] = @ + 1]
            /\ IF DepthOk(e.depth)
               THEN /\ cur' = [cur EXCEPT ![w] = e]
                    /\ pc' = [pc EXCEPT ![w] =
                                IF config.respect_robots_txt THEN "robots" ELSE "fetch"]
               ELSE /\ pc' = [pc EXCEPT ![w] = "check"]
                    /\ UNCHANGED cur
       ELSE /\ pc' = [pc EXCEPT ![w] = "backoff"]
            /\ UNCHANGED <<queue, handed, cur>>
    /\ UNCHANGED <<coordinator, visited, pages_crawled, store, robots_cache, links,
                   can_crawl, robots_used, pushed, fetch_failures>>
    /\ WithLock("queue", w)
    /\ UNCHANGED observed

\* line 118: sleep(100 ms)
Backoff(w) ==
    /\ pc[w] = "backoff"
    /\ pc' = [pc EXCEPT ![w] = "recheck"]
    /\ UNCHANGED <<coordinator, shared, cur, links, can_crawl, robots_used, history>>
    /\ UNCHANGED <<locks, observed>>

AfterRecheck_loop == "check"

\* lines 119-122: break if the queue is still empty, else the next iteration
AfterRecheck == IF queue = <<>> THEN "stopped" ELSE "check"

Recheck(w) ==
    /\ pc[w] = "recheck"
    /\ pc' = [pc EXCEPT ![w] = AfterRecheck]
    /\ UNCHANGED <<coordinator, shared, cur, links, can_crawl, robots_used, history>>
    /\ WithLock("queue", w)
    /\ UNCHANGED observed

(***************************************************************************)
(* check_robots_txt (src/src/crawler.rs:127-153).                          *)
(***************************************************************************)
\* lines 128-139: no host, or a cached RobotsTxt, answers at once; else the
\* worker goes on to fetch robots.txt
RobotsLookup(w) ==
    LET url == cur[w].url IN
    /\ pc[w] = "robots"
    /\ IF ~url.ok \/ url.host = NoHost
       THEN /\ can_crawl' = [can_crawl EXCEPT ![w] = TRUE]
            /\ pc' = [pc EXCEPT ![w] = "robots_done"]
            /\ UNCHANGED robots_used
       ELSE IF robots_cache[url.host] # NoRobots
       THEN /\ can_crawl' = [can_crawl EXCEPT ![w] = is_allowed(robots_cache[url.host], url.path)]
            /\ robots_used' = [robots_used EXCEPT ![w] = robots_cache[url.host]]
            /\ pc' = [pc EXCEPT ![w] = "robots_done"]
       ELSE /\ pc' = [pc EXCEPT ![w] = "robots_fetch"]
            /\ UNCHANGED <<can_crawl, robots_used>>
    /\ UNCHANGED <<coordinator, shared, cur, links, history>>
    /\ UNCHANGED <<locks, observed>>

\* line 148
CacheInsert(host, robots) == [robots_cache EXCEPT ![host] = robots]

\* lines 144-150 with RobotsTxt::fetch returning Some: the body is parsed,
\* the path is evaluated and the rules are inserted into the cache
RobotsFetchOk(w, body) ==
    LET url == cur[w].url
        robots == ParseRobots(body) IN
    /\ pc[w] = "robots_fetch"
    /\ can_crawl' = [can_crawl EXCEPT ![w] = is_allowed(robots, url.path)]
    /\ robots_used' = [robots_used EXCEPT ![w] = robots]
    /\ robots_cache' = CacheInsert(url.host, robots)
    /\ pc' = [pc EXCEPT ![w] = "robots_done"]
    /\ UNCHANGED <<coordinator, visited, queue, pages_crawled, store, cur, links, history>>
    /\ UNCHANGED <<locks, observed>>

FailOpen_closed == FALSE

\* the answer of check_robots_txt when RobotsTxt::fetch returns None, line 151
FailOpen == TRUE

\* line 151 with RobotsTxt::fetch returning None (src/main.rs:191-204):
\* the request failed, or the status was not a success
RobotsFetchFail(w) ==
    /\ pc[w] = "robots_fetch"
    /\ can_crawl' = [can_crawl EXCEPT ![w] = FailOpen]
    /\ pc' = [pc EXCEPT ![w] = "robots_done"]
    /\ UNCHANGED <<coordinator, shared, cur, links, robots_used, history>>
    /\ UNCHANGED <<locks, observed>>

AfterRobots_ignored(allowed) == "fetch"

\* worker, lines 96-101: continue (no sleep) when the answer is no, else crawl_page
AfterRobots(allowed) == IF allowed THEN "fetch" ELSE "check"

\* worker, lines 96-99: continue when the answer is no
RobotsDone(w) ==
    /\ pc[w] = "robots_done"
    /\ pc' = [pc EXCEPT ![w] = AfterRobots(can_crawl[w])]
    /\ cur' = [cur EXCEPT ![w] = IF can_crawl[w] THEN @ ELSE NoEntry]
    /\ can_crawl' = [can_crawl EXCEPT ![w] = TRUE]
    /\ robots_used' = [robots_used EXCEPT ![w] = NoRobots]
    /\ UNCHANGED <<coordinator, shared, links, history>>
    /\ UNCHANGED <<locks, observed>>

(***************************************************************************)
(* worker, lines 101-116: crawl_page, store, add_url per link, count.      *)
(***************************************************************************)
\* where the loop over page.links goes next
AfterLink(rest) == IF rest = <<>> THEN "incr" ELSE "add_contains"

\* crawl_page returns Ok(page), line 102 (only an http(s) url can be fetched)
CrawlOk(w) ==
    /\ pc[w] = "fetch"
    /\ IsHttp(cur[w].url)
    /\ links' = [links EXCEPT ![w] = PageLinks(cur[w].url)]
    /\ pc' = [pc EXCEPT ![w] = "store"]
    /\ UNCHANGED <<coordinator, shared, cur, can_crawl, robots_used, history>>
    /\ fetched' = fetched \cup {cur[w].url}
    /\ undelayed' = [undelayed EXCEPT ![w] = TRUE]
    /\ UNCHANGED <<locks, failed>>

AfterErr_nodelay == "check"

\* lines 113-115: after the Err arm the worker sleeps delay_ms
AfterErr == "delay"

\* crawl_page returns Err, line 113: the error is logged
CrawlErr(w) ==
    /\ pc[w] = "fetch"
    /\ fetch_failures' = fetch_failures + 1
    /\ pc' = [pc EXCEPT ![w] = AfterErr]
    /\ UNCHANGED <<coordinator, shared, cur, links, can_crawl, robots_used, pushed, handed>>
    /\ failed' = failed \cup {cur[w].url}
    /\ undelayed' = [undelayed EXCEPT ![w] = TRUE]
    /\ UNCHANGED <<locks, fetched>>

AfterStore_abort(ok, rest) == IF ok THEN AfterLink(rest) ELSE "delay"

\* lines 103-104: an Err of add_page is only logged; the loop over the links
\* follows in either case
AfterStore(ok, rest) == AfterLink(rest)

\* line 103: add_page under the store lock; an Err is logged
StorePage(w, ok) ==
    /\ pc[w] = "store"
    /\ store' = IF ok THEN Append(store, cur[w].url) ELSE store
    /\ pc' = [pc EXCEPT ![w] = AfterStore(ok, links[w])]
    /\ UNCHANGED <<coordinator, visited, queue, pages_crawled, robots_cache, cur, links,
                   can_crawl, robots_used, history>>
    /\ WithLock("store", w)
    /\ UNCHANGED observed

\* add_url, lines 47-48, for the next link: normalize and visited.contains
AddContains(w) ==
    LET n == normalize_url(Head(links[w])) IN
    /\ pc[w] = "add_contains"
    /\ IF n # NoUrl /\ NotVisited(n)
       THEN /\ pc' = [pc EXCEPT ![w] = "add_insert"]
            /\ UNCHANGED links
       ELSE /\ links' = [links EXCEPT ![w] = Tail(@)]
            /\ pc' = [pc EXCEPT ![w] = AfterLink(Tail(links[w]))]
    /\ UNCHANGED <<coordinator, shared, cur, can_crawl, robots_used, history>>
    /\ UNCHANGED <<locks, observed>>

\* add_url, line 49: visited.insert
AddInsert(w) ==
    /\ pc[w] = "add_insert"
    /\ visited' = visited \cup {normalize_url(Head(links[w]))}
    /\ pc' = [pc EXCEPT ![w] = "add_push"]
    /\ UNCHANGED <<coordinator, queue, pages_crawled, store, robots_cache, cur, links,
                   can_crawl, robots_used, history>>
    /\ UNCHANGED <<locks, observed>>

LinkDepth_skip(depth) == depth + 2

\* line 105: the depth add_url is given for a link of a page of this depth
LinkDepth(depth) == depth + 1

\* add_url, line 50: push_back at depth + 1 (line 105)
AddPush(w) ==
    /\ pc[w] = "add_push"
    /\ PushBack(normalize_url(Head(links[w])), LinkDepth(cur[w].depth))
    /\ links' = [links EXCEPT ![w] = Tail(@)]
    /\ pc' = [pc EXCEPT ![w] = AfterLink(Tail(links[w]))]
    /\ UNCHANGED <<coordinator, visited, pages_crawled, store, robots_cache, cur,
                   can_crawl, robots_used, fetch_failures>>
    /\ WithLock("queue", w)
    /\ UNCHANGED observed

\* lines 108-111: the counter is incremented under its lock
Incr(w) ==
    /\ pc[w] = "incr"
    /\ pages_crawled' = pages_crawled + 1
    /\ pc' = [pc EXCEPT ![w] = "delay"]
    /\ UNCHANGED <<coordinator, visited, queue, store, robots_cache, cur, links,
                   can_crawl, robots_used, history>>
    /\ WithLock("pages_crawled", w)
    /\ UNCHANGED observed

\* line 115: sleep(delay_ms), then the next iteration
Delay(w) ==
    /\ pc[w] = "delay"
    /\ pc' = [pc EXCEPT ![w] = "check"]
    /\ cur' = [cur EXCEPT ![w] = NoEntry]
    /\ UNCHANGED <<coordinator, shared, links, can_crawl, robots_used, history>>
    /\ undelayed' = [undelayed EXCEPT ![w] = FALSE]
    /\ UNCHANGED <<locks, fetched, failed>>

WorkerStep(w) ==
    \/ CheckMax(w)
    \/ Pop(w)
    \/ Backoff(w)
    \/ Recheck(w)
    \/ RobotsLookup(w)
    \/ \E body \in RobotsBodies : RobotsFetchOk(w, body)
    \/ RobotsFetchFail(w)
    \/ RobotsDone(w)
    \/ CrawlOk(w)
    \/ CrawlErr(w)
    \/ \E ok \in BOOLEAN : StorePage(w, ok)
    \/ AddContains(w)
    \/ AddInsert(w)
    \/ AddPush(w)
    \/ Incr(w)
    \/ Delay(w)

Next ==
    \/ Seed
    \/ Spawn
    \/ Join
    \/ \E w \in Workers : WorkerStep(w)

Spec == Init /\ [][Next]_vars

\* every task that can take a step eventually takes one: tokio schedules
\* every spawned task, and every sleep and every request (10 s timeout) returns
FairSpec ==
    /\ Spec
    /\ WF_vars(Seed \/ Spawn \/ Join)
    /\ \A w \in Workers : WF_vars(WorkerStep(w))

(***************************************************************************)
(* Properties.                                                             *)
(***************************************************************************)
Done == coord = "done"

\* the positions of a worker between the depth test and the end of the iteration
Processing == {"robots", "robots_fetch", "robots_done", "fetch", "store",
               "add_contains", "add_insert", "add_push", "incr", "delay"}

\* C1: every normalized URL is appended to the queue at most once in a run:
\* no two entries ever pushed carry the same URL.
C1_NoDuplicateEnqueue ==
    \A i, j \in 1..Len(pushed) : i # j => pushed[i].url # pushed[j].url

\* C2: the stored-page counter never exceeds max_pages, in any state and
\* so also at run end.
C2_PageBound == pages_crawled <= config.max_pages

\* C3: a worker that is in the robots check, the fetch or any later step of
\* an iteration holds an entry of depth <= max_depth; and the step that pops
\* an entry deeper than max_depth sends the worker back to the top of the
\* loop and changes neither the robots cache, the store, the counter nor the
\* failure count.
C3_DepthBound ==
    /\ [](\A w \in Workers : pc[w] \in Processing => cur[w].depth <= config.max_depth)
    /\ [][\A w \in Workers :
            (/\ pc[w] = "pop"
             /\ pc'[w] # "pop"
             /\ queue # <<>>
             /\ Head(queue).depth > config.max_depth)
            => /\ pc'[w] = "check"
               /\ UNCHANGED <<robots_cache, store, pages_crawled, fetch_failures, cur>>]_vars

\* a worker has popped and dropped an entry deeper than max_depth
C3_Witness ==
    \E i \in 1..Len(pushed) : handed[i] > 0 /\ pushed[i].depth > config.max_depth

\* C4: every entry ever appended is either still in the queue, exactly once,
\* and was returned by no pop_front, or is no longer in the queue and was
\* returned by exactly one pop_front; a worker that processes an entry holds
\* one that a pop_front returned to it.
C4_ExactlyOnce ==
    /\ Len(handed) = Len(pushed)
    /\ \A i \in 1..Len(pushed) :
          LET inQueue == {k \in 1..Len(queue) : queue[k].id = i} IN
          /\ handed[i] + Cardinality(inQueue) = 1
          /\ \A k \in inQueue : queue[k].url = pushed[i].url /\ queue[k].depth = pushed[i].depth
    /\ \A k \in 1..Len(queue) : queue[k].id \in 1..Len(pushed)
    /\ \A w \in Workers : pc[w] \in Processing =>
          /\ cur[w].id \in 1..Len(pushed)
          /\ handed[cur[w].id] = 1
          /\ \A v \in Workers : (v # w /\ pc[v] \in Processing) => cur[v].id # cur[w].id

\* two workers each hold an entry a pop_front gave them
C4_Witness ==
    \E w, v \in Workers : w # v /\ pc[w] \in Processing /\ pc[v] \in Processing

\* C5: under fair scheduling every run ends: every spawned worker stops and
\* run returns its CrawlResult; and a run whose only seed has no outbound
\* links, is not denied by robots.txt and is fetched without failure ends
\* with the counter at 1 and the queue empty.
C5_Terminates ==
    /\ <>(Done /\ AllStopped /\ result # NoResult)
    /\ []((/\ Done
           /\ pushed = <<[url |-> UrlOther, depth |-> 0]>>
           /\ config.respect_robots_txt => robots_cache[UrlOther.host] # ParseRobots(RobotsP6)
           /\ fetch_failures = 0)
          => (pages_crawled = 1 /\ queue = <<>>))

\* a run has returned although every fetch failed
C5_Witness == Done /\ fetch_failures > 0 /\ pages_crawled = 0 /\ store = <<>>

\* C6: once every spawned worker has stopped, the counter has reached
\* max_pages or the queue is empty.
C6_NoWorkLeft ==
    (coord # "seeding" /\ AllStopped) => (pages_crawled >= config.max_pages \/ queue = <<>>)

\* a run of several workers has ended below max_pages after links were
\* enqueued, and the queue is drained
C6_Witness ==
    /\ Done
    /\ config.concurrent_requests > 1
    /\ pages_crawled < config.max_pages
    /\ Len(pushed) > 2
    /\ queue = <<>>

\* C7: in the CrawlResult, pagesStored + errors <= uniqueUrlsSeen.
C7_Accounting ==
    Done => result.pages_processed + result.errors <= result.unique_urls

\* C8: the errors field of the CrawlResult equals the number of fetches that
\* failed during the run.
C8_ErrorsReported == Done => result.errors = fetch_failures

\* C9: when the robots.txt fetch fails, check_robots_txt answers allowed,
\* the step inserts nothing into the robots cache, and the worker goes on to
\* fetch the page.
C9_RobotsFailOpen ==
    /\ [](\A w \in Workers :
            (pc[w] = "robots_done" /\ robots_used[w] = NoRobots) => can_crawl[w])
    /\ [][\A w \in Workers :
            /\ (pc[w] = "robots_fetch" /\ pc'[w] = "robots_done" /\ robots_used'[w] = NoRobots)
               => robots_cache' = robots_cache
            /\ (pc[w] = "robots_done" /\ pc'[w] # "robots_done" /\ robots_used[w] = NoRobots)
               => pc'[w] = "fetch"]_vars

\* with robots checking on, a page of the host is being fetched while the
\* cache has no entry for the host: its robots.txt fetch failed
C9_Witness ==
    \E w \in Workers :
        /\ pc[w] = "fetch"
        /\ config.respect_robots_txt
        /\ cur[w].url.host \in Hosts
        /\ robots_cache[cur[w].url.host] = NoRobots

\* the rules the lines "Allow: /public", "Disallow: /" parse to
P6Rules == [allowed_paths |-> << <<"/", "p", "u", "b", "l", "i", "c">> >>,
            disallowed_paths |-> << <<"/">> >>]

EvaluatedP6(w) == pc[w] = "robots_done" /\ robots_used[w] = ParseRobots(RobotsP6)

\* C10 as stated: under the rules of "Allow: /public", "Disallow: /",
\* /public/page is allowed, /private is disallowed and /other is allowed.
C10_AsStated ==
    \A w \in Workers : EvaluatedP6(w) =>
        /\ cur[w].url.path = PublicPagePath => can_crawl[w]
        /\ cur[w].url.path = PrivatePath => ~can_crawl[w]
        /\ cur[w].url.path = OtherPath => can_crawl[w]

\* C10 amended: the lines parse to Allow [/public], Disallow [/]; under these
\* rules /public/page is allowed, /private is disallowed and /other is
\* disallowed too, because the Disallow prefix / matches it.
C10_Precedence ==
    /\ ParseRobots(RobotsP6) = P6Rules
    /\ \A w \in Workers : EvaluatedP6(w) =>
        /\ cur[w].url.path = PublicPagePath => can_crawl[w]
        /\ cur[w].url.path = PrivatePath => ~can_crawl[w]
        /\ cur[w].url.path = OtherPath => ~can_crawl[w]

\* a worker has evaluated /other under the rules and was denied
C10_Witness ==
    \E w \in Workers : EvaluatedP6(w) /\ cur[w].url.path = OtherPath /\ ~can_crawl[w]

\* C11: add_url of a string that is no valid URL, or whose scheme is neither
\* http nor https, changes neither the visited set nor the queue: every URL
\* in the visited set and every entry ever pushed has scheme http or https.
C11_OnlyHttpEnqueued ==
    /\ \A u \in visited : u.ok /\ IsHttp(u)
    /\ \A i \in 1..Len(pushed) : pushed[i].url.ok /\ IsHttp(pushed[i].url)

\* C12: a step in which add_page fails (the store is unchanged) leaves the
\* counter alone and takes the worker to the loop over all the links of the
\* page; every push of a link is at depth + 1; a worker that has finished
\* the loop finds every link of its page in the visited set (add_url has
\* taken it, now or earlier); its next step counts the page and the one
\* after returns to the top of the loop; and the run returns a CrawlResult.
C12_SinkFailureNonFatal ==
    /\ [](\A w \in Workers : pc[w] = "incr" =>
            \A k \in 1..Len(PageLinks(cur[w].url)) :
                normalize_url(PageLinks(cur[w].url)[k]) \in visited)
    /\ [](Done => result # NoResult)
    /\ [][\A w \in Workers :
            /\ (pc[w] = "store" /\ pc'[w] # "store" /\ store' = store)
               => /\ links'[w] = PageLinks(cur[w].url)
                  /\ pc'[w] = AfterLink(PageLinks(cur[w].url))
                  /\ pages_crawled' = pages_crawled
            /\ (pc[w] = "add_push" /\ pc'[w] # "add_push")
               => pushed' = Append(pushed, [url |-> normalize_url(Head(links[w])),
                                            depth |-> cur[w].depth + 1])
            /\ (pc[w] = "incr" /\ pc'[w] # "incr")
               => (pages_crawled' = pages_crawled + 1 /\ pc'[w] = "delay")
            /\ (pc[w] = "delay" /\ pc'[w] # "delay") => pc'[w] = "check"]_vars

\* a run has returned in which every add_page failed, and yet links were
\* enqueued and pages were counted
C12_Witness == Done /\ store = <<>> /\ pages_crawled > 1 /\ Len(pushed) > 1

\* C13: a crawl_page that returns Err changes neither the visited set, the
\* queue, the store nor the counter, enqueues no link and takes the worker
\* to the delay and from there to the top of the loop; the failed URL stays
\* in the visited set, is never pushed on the queue again and is never
\* handed to crawl_page a second time.
C13_FailedAttemptFinal ==
    /\ [](failed \subseteq visited)
    /\ [][\A w \in Workers :
            /\ (pc[w] = "fetch" /\ fetch_failures' # fetch_failures /\ pc'[w] # "fetch")
               => /\ UNCHANGED <<visited, queue, store, pages_crawled, pushed>>
                  /\ pc'[w] = "delay"
            /\ (pc[w] = "fetch" /\ pc'[w] # "fetch") => cur[w].url \notin failed]_vars
    /\ [][pushed' # pushed => pushed'[Len(pushed')].url \notin failed]_vars

\* C14: with respect_robots_txt on, the step after check_robots_txt has
\* answered false for the entry of a worker returns the worker to the top
\* of the loop: no crawl_page call, no store, no counter change, no delay,
\* no push, and a worker reaches crawl_page only from an answer of true;
\* with respect_robots_txt off no worker ever enters check_robots_txt and
\* the robots cache stays empty.
C14_DeniedNeverFetched ==
    /\ [](~config.respect_robots_txt =>
            /\ \A h \in Hosts : robots_cache[h] = NoRobots
            /\ \A w \in Workers : pc[w] \notin {"robots", "robots_fetch", "robots_done"})
    /\ [][\A w \in Workers :
            /\ (pc[w] = "robots_done" /\ ~can_crawl[w] /\ pc'[w] # pc[w])
                => /\ pc'[w] = "check"
                   /\ UNCHANGED <<shared, history, observed>>
            /\ (config.respect_robots_txt /\ pc[w] # "fetch" /\ pc'[w] = "fetch")
                => (pc[w] = "robots_done" /\ can_crawl[w])]_vars

\* a run has returned in which the only entry, a seed, was popped and denied
\* by the rules of its host: nothing was fetched, stored or counted
C14_Witness ==
    /\ Done /\ config.respect_robots_txt
    /\ Len(pushed) = 1 /\ handed[1] = 1
    /\ \E h \in Hosts : robots_cache[h] # NoRobots
    /\ fetched = {} /\ failed = {} /\ store = <<>> /\ pages_crawled = 0

\* C15: a worker that has called crawl_page sleeps delay_ms once before it
\* calls crawl_page again, whether the call returned Ok or Err: a worker at
\* crawl_page, at the top of the loop or stopped has no fetch without its
\* delay behind it, the delay is entered only with such a fetch, and the
\* step that ends a crawl_page call opens one and the delay step closes it.
C15_OneDelayBetweenFetches ==
    /\ [](\A w \in Workers :
            /\ pc[w] \in {"idle", "check", "pop", "backoff", "recheck", "robots",
                          "robots_fetch", "robots_done", "fetch", "stopped"}
                    => ~undelayed[w]
            /\ pc[w] = "delay" => undelayed[w])
    /\ [][\A w \in Workers :
            /\ (pc[w] = "fetch" /\ pc'[w] # "fetch") => undelayed'[w]
            /\ (undelayed[w] /\ ~undelayed'[w]) => (pc[w] = "delay" /\ pc'[w] = "check")
            /\ (undelayed[w] /\ pc'[w] # pc[w])
                    => pc'[w] \in {"store", "add_contains", "add_insert", "add_push",
                                   "incr", "delay", "check"}]_vars

\* the only worker is about to call crawl_page again after one call that
\* returned Ok and one that returned Err
C15_Witness ==
    /\ config.concurrent_requests = 1
    /\ pc[1] = "fetch" /\ ~undelayed[1]
    /\ fetched # {} /\ failed # {}

\* C16: a worker suspended in crawl_page, in the fetch of robots.txt, in the
\* delay or in the backoff holds none of the three Mutexes, and every step
\* that locks the queue, the counter or the store has released it when the
\* step ends, so no Mutex is held between steps.
C16_NoLockWhileSuspended ==
    /\ \A w \in Workers :
        pc[w] \in {"fetch", "robots_fetch", "delay", "backoff"}
            => \A l \in LockNames : locks[l] # w
    /\ \A l \in LockNames : locks[l] = Free

\* one worker is suspended in a fetch and another in the delay or the
\* backoff, after the queue has been locked for a push and for a pop
C16_Witness ==
    \E w, v \in Workers :
        /\ w # v
        /\ pc[w] \in {"fetch", "robots_fetch"}
        /\ pc[v] \in {"delay", "backoff"}
        /\ Len(pushed) > 0 /\ handed[1] > 0
        /\ \A l \in LockNames : locks[l] = Free

\* C17: once a host has an entry in the robots cache, no step replaces that
\* entry by a different value, also when several workers have found the
\* host absent and each fetches robots.txt itself.
C17_CacheWriteOnce ==
    [][\A h \in Hosts :
        robots_cache[h] # NoRobots => robots_cache'[h] = robots_cache[h]]_vars

\* C18: the queue is FIFO: it holds, in the order of their push_back, exactly
\* the entries pushed last, every entry pushed before them has been handed
\* to a worker, and each pop_front hands out the entry pushed earliest among
\* those in the queue; so entries are handed out in the order pushed.
C18_Fifo ==
    /\ [](LET k == Len(pushed) - Len(queue) IN
            /\ k >= 0
            /\ \A i \in 1..Len(queue) :
                /\ queue[i].id = k + i
                /\ queue[i].url = pushed[k + i].url
                /\ queue[i].depth = pushed[k + i].depth
            /\ \A j \in 1..Len(pushed) : handed[j] > 0 <=> j <= k)
    /\ [][(queue # <<>> /\ Len(queue') < Len(queue))
            => /\ queue' = Tail(queue)
               /\ handed'[Head(queue).id] = handed[Head(queue).id] + 1
               /\ \A i \in 1..Len(queue) : Head(queue).id <= queue[i].id]_vars

\* two entries have been handed out, in the order pushed, and a third,
\* pushed after them, waits in the queue
C18_Witness ==
    /\ Len(pushed) >= 3 /\ Len(queue) >= 1
    /\ handed[1] > 0 /\ handed[2] > 0
    /\ handed[Len(pushed)] = 0

\* the seeds that were enqueued: add_url pushes at depth 0 only for a seed
SeedUrls == {pushed[i].url : i \in {j \in 1..Len(pushed) : pushed[j].depth = 0}}

\* the urls a page links to, as add_url records them
LinkedFrom(u) == {normalize_url(PageLinks(u)[k]) : k \in 1..Len(PageLinks(u))}

RECURSIVE Reach(_)
\* the urls whose shortest link distance from a seed is at most k
Reach(k) ==
    IF k = 0 THEN SeedUrls
    ELSE Reach(k - 1) \cup UNION {LinkedFrom(u) : u \in Reach(k - 1)}

\* robots checking is off, no crawl_page call has failed and the run has
\* returned with the counter below max_pages
UnboundedCrawlDone ==
    /\ Done
    /\ ~config.respect_robots_txt
    /\ fetch_failures = 0
    /\ pages_crawled < config.max_pages

\* C19 as stated: with robots checking off, every fetch succeeding and
\* max_pages never reached, every url whose shortest link distance from a
\* seed is at most max_depth has been fetched when the run returns, for any
\* number of workers.
C19_AsStated ==
    UnboundedCrawlDone => \A u \in Reach(config.max_depth) : u \in fetched

\* C19 amended: under the same conditions the run returns, and every url
\* enqueued with a recorded depth of at most max_depth has been fetched, for
\* any number of workers; with one worker that is every url whose shortest
\* link distance from a seed is at most max_depth.
C19_RecordedDepthFetched ==
    /\ <>Done
    /\ [](UnboundedCrawlDone =>
            /\ \A i \in 1..Len(pushed) :
                pushed[i].depth <= config.max_depth => pushed[i].url \in fetched
            /\ config.concurrent_requests = 1 =>
                \A u \in Reach(config.max_depth) : u \in fetched)

\* a run of several workers has returned with a link fetched at its
\* recorded depth, while a url within max_depth of the seed by links was
\* first recorded deeper and not fetched
C19_Witness ==
    /\ UnboundedCrawlDone
    /\ config.concurrent_requests > 1
    /\ \E i \in 1..Len(pushed) : pushed[i].depth >= 1 /\ pushed[i].url \in fetched
    /\ \E u \in Reach(config.max_depth) : u \notin fetched

\* C20: in every reachable state the counter is at most
\* max_pages + concurrent_requests - 1; once the counter has reached
\* max_pages, the counter plus the number of workers that are past the
\* max_pages check and have not yet counted stays within that bound.
C20_OvershootBound ==
    /\ pages_crawled <= config.max_pages + config.concurrent_requests - 1
    /\ LET InFlight == {w \in Workers : pc[w] \in {"pop", "robots", "robots_fetch",
                            "robots_done", "fetch", "store", "add_contains",
                            "add_insert", "add_push", "incr"}} IN
       (InFlight # {} /\ pages_crawled >= config.max_pages)
            => pages_crawled + Cardinality(InFlight)
                    <= config.max_pages + config.concurrent_requests - 1

\* several workers have counted a page each after reading the counter
\* below max_pages, and the counter stands at the bound
C20_Witness ==
    /\ config.concurrent_requests > 1
    /\ pages_crawled = config.max_pages + config.concurrent_requests - 1

\* C21: every entry ever pushed on the queue, and so every entry in it, has
\* depth at most max_depth + 1 and a url that is in the visited set: while
\* run is seeding every entry has depth 0, and a worker inside add_url for
\* a link holds a page of depth at most max_depth.
C21_QueuedDepthAndVisited ==
    /\ \A i \in 1..Len(pushed) :
        /\ pushed[i].depth >= 0
        /\ pushed[i].depth <= config.max_depth + 1
        /\ pushed[i].url \in visited
    /\ \A i \in 1..Len(queue) :
        /\ queue[i].depth <= config.max_depth + 1
        /\ queue[i].url \in visited
    /\ coord = "seeding" => \A i \in 1..Len(pushed) : pushed[i].depth = 0
    /\ \A w \in Workers :
        pc[w] \in {"add_contains", "add_insert", "add_push"}
            => cur[w].depth <= config.max_depth

\* the queue holds a link at depth max_depth + 1 next to the seeds' depth 0
C21_Witness ==
    /\ \E i \in 1..Len(queue) : queue[i].depth = config.max_depth + 1
    /\ \E i \in 1..Len(pushed) : pushed[i].depth = 0
    /\ config.max_depth > 0

====
